---- MODULE Spec2Model ----
(***************************************************************************)
(* Model of src/chess/chess.py: the board, the pawn movement rule, the     *)
(* move execution of Board.move / Game.move and the command loop of main.  *)
(***************************************************************************)
EXTENDS Integers, Sequences, FiniteSets, TLC

\* ------------------------------------------------------------------------
\* Bounds of the model
\* ------------------------------------------------------------------------

\* Longest sequence of successful moves explored in one game.
MaxMoves == 3

\* Number of files, counted leftwards from file E, that typed squares name.
NumInputCols == 2

\* Largest offset, either way, handed to Position.translate.
MaxOffset == 8

\* Longest text handed to Position.parse.
MaxTextLen == 3

\* ------------------------------------------------------------------------
\* Values
\* ------------------------------------------------------------------------

\* Python's None.
None == [none |-> TRUE]

BLACK == [name |-> "BLACK", value |-> 0]

WHITE == [name |-> "WHITE", value |-> 1]

Color == {BLACK, WHITE}

inverse(self) == IF self = BLACK THEN WHITE ELSE BLACK

\* A Field object: its class and its colour.
Field(kind, color) == [kind |-> kind, color |-> color]

Empty == Field("Empty", None)

Pawn(color) == Field("Pawn", color)

Rook(color) == Field("Rook", color)

King(color) == Field("King", color)

Queen(color) == Field("Queen", color)

Knight(color) == Field("Knight", color)

Bishop(color) == Field("Bishop", color)

is_empty(self) == self.color = None

Position(row, column) == [row |-> row, column |-> column]

\* range(8)
Range8 == 0..7

\* A translate that wraps round the edge of the board.
translate_Wraps(self, row_offset, column_offset) ==
    Position((self.row + row_offset) % 8, (self.column + column_offset) % 8)

translate(self, row_offset, column_offset) ==
    LET row == self.row + row_offset
        column == self.column + column_offset
    IN  IF row \in Range8 /\ column \in Range8
        THEN Position(row, column)
        ELSE None

\* ------------------------------------------------------------------------
\* Position.parse and Position.__str__ ; a text is a sequence of code points
\* ------------------------------------------------------------------------

ord_a == 97

ord_A == 65

ord_1 == 49

ord_newline == 10

\* re.match(r"^([a-h])([1-8])$", input): `$` also matches before one
\* trailing line break.
regex_match(input) ==
    /\ Len(input) \in {2, 3}
    /\ input[1] \in ord_a..(ord_a + 7)
    /\ input[2] \in ord_1..(ord_1 + 7)
    /\ (Len(input) = 3 => input[3] = ord_newline)

\* A parse that takes the row from the letter and the column from the digit.
parse_SwapsGroups(input) ==
    IF ~ regex_match(input)
    THEN [raised |-> "InvalidPosition", value |-> None]
    ELSE [raised |-> "none",
          value |-> Position(input[1] - ord_a, input[2] - ord_1)]

\* The position parsed, or "InvalidPosition" raised.
parse(input) ==
    IF ~ regex_match(input)
    THEN [raised |-> "InvalidPosition", value |-> None]
    ELSE [raised |-> "none",
          value |-> Position(input[2] - ord_1, input[1] - ord_a)]

Position_str(self) == <<self.column + ord_A, self.row + ord_1>>

\* str.lower() on the code points used here.
lower(text) ==
    [i \in DOMAIN text |->
        IF text[i] \in ord_A..(ord_A + 25) THEN text[i] + 32 ELSE text[i]]

\* ------------------------------------------------------------------------
\* Board
\* ------------------------------------------------------------------------

Board_getitem(board, key) == board[key.row][key.column]

Board_setitem(board, key, value) ==
    [board EXCEPT ![key.row][key.column] = value]

\* A back rank with King and Queen on each other's column.
BackRank_KingQueenSwapped(color) ==
    [column \in Range8 |->
        CASE column \in {0, 7} -> Rook(color)
          [] column \in {1, 6} -> Knight(color)
          [] column \in {2, 5} -> Bishop(color)
          [] column = 3 -> King(color)
          [] column = 4 -> Queen(color)]

BackRank(color) ==
    [column \in Range8 |->
        CASE column \in {0, 7} -> Rook(color)
          [] column \in {1, 6} -> Knight(color)
          [] column \in {2, 5} -> Bishop(color)
          [] column = 3 -> Queen(color)
          [] column = 4 -> King(color)]

Board_init ==
    [row \in Range8 |->
        CASE row = 0 -> BackRank(WHITE)
          [] row = 7 -> BackRank(BLACK)
          [] row = 1 -> [column \in Range8 |-> Pawn(WHITE)]
          [] row = 6 -> [column \in Range8 |-> Pawn(BLACK)]
          [] OTHER -> [column \in Range8 |-> Empty]]

\* Python's `x in list`, decided by Position.__eq__.
In(x, list) == \E i \in DOMAIN list : list[i] = x

Pawn_direction(self) == IF self.color = WHITE THEN 1 ELSE -1

\* A pawn that may also go three squares from its start row.
Pawn_forward_ThreeSquares(self, board, from_) ==
    LET direction == Pawn_direction(self)
        on_start_row ==
            \/ (self.color = WHITE /\ from_.row = 1)
            \/ (self.color = BLACK /\ from_.row = 6)
        ahead(n) == translate(from_, n * direction, 0)
        free(n) == ahead(n) # None /\ is_empty(Board_getitem(board, ahead(n)))
    IN  IF free(1)
        THEN <<ahead(1)>> \o
             (IF on_start_row /\ free(2)
              THEN <<ahead(2)>> \o (IF free(3) THEN <<ahead(3)>> ELSE <<>>)
              ELSE <<>>)
        ELSE <<>>

\* A pawn that reaches the second square whatever stands on the first.
Pawn_forward_JumpsOver(self, board, from_) ==
    LET direction == Pawn_direction(self)
        advance_one == translate(from_, direction, 0)
        advance_two == translate(from_, 2 * direction, 0)
        on_start_row ==
            \/ (self.color = WHITE /\ from_.row = 1)
            \/ (self.color = BLACK /\ from_.row = 6)
    IN  (IF advance_one # None /\ is_empty(Board_getitem(board, advance_one))
         THEN <<advance_one>>
         ELSE <<>>) \o
        (IF on_start_row /\ advance_two # None
               /\ is_empty(Board_getitem(board, advance_two))
         THEN <<advance_two>>
         ELSE <<>>)

\* "# Forward": the candidates straight ahead.
Pawn_forward(self, board, from_) ==
    LET direction == Pawn_direction(self)
        advance_one == translate(from_, direction, 0)
        on_start_row ==
            \/ (self.color = WHITE /\ from_.row = 1)
            \/ (self.color = BLACK /\ from_.row = 6)
        advance_two == translate(advance_one, direction, 0)
    IN  IF advance_one # None /\ is_empty(Board_getitem(board, advance_one))
        THEN <<advance_one>> \o
             (IF on_start_row
                   /\ advance_two # None
                   /\ is_empty(Board_getitem(board, advance_two))
              THEN <<advance_two>>
              ELSE <<>>)
        ELSE <<>>

\* A pawn that strikes onto every square its own colour does not hold.
Pawn_strike_AnyNotOwn(self, board, from_, column_offset) ==
    LET advance == translate(from_, Pawn_direction(self), column_offset)
    IN  IF advance # None /\ Board_getitem(board, advance).color # self.color
        THEN <<advance>>
        ELSE <<>>

\* A pawn that never strikes.
Pawn_strike_Never(self, board, from_, column_offset) == <<>>

\* "# Strike": the candidate one row ahead and column_offset (-1: advance_left,
\* 1: advance_right) to the side.
Pawn_strike(self, board, from_, column_offset) ==
    LET advance == translate(from_, Pawn_direction(self), column_offset)
    IN  IF advance # None
             /\ Board_getitem(board, advance).color = inverse(self.color)
        THEN <<advance>>
        ELSE <<>>

Pawn_can_move_to(self, board, from_) ==
    Pawn_forward(self, board, from_)
        \o Pawn_strike(self, board, from_, -1)
        \o Pawn_strike(self, board, from_, 1)

\* The squares next to from_ that are on the board.
Neighbours(from_) ==
    LET step(row_offset, column_offset) ==
            IF translate(from_, row_offset, column_offset) # None
            THEN <<translate(from_, row_offset, column_offset)>>
            ELSE <<>>
    IN  step(1, -1) \o step(1, 0) \o step(1, 1) \o step(0, -1)
            \o step(0, 1) \o step(-1, -1) \o step(-1, 0) \o step(-1, 1)

\* A can_move_to in which the King has its rule: one step any way.
can_move_to_KingSteps(self, board, from_) ==
    IF self.kind = "Pawn"
    THEN Pawn_can_move_to(self, board, from_)
    ELSE IF self.kind = "King"
    THEN Neighbours(from_)
    ELSE <<>>

\* Field.can_move_to, overridden by Pawn and Empty only.
can_move_to(self, board, from_) ==
    IF self.kind = "Pawn"
    THEN Pawn_can_move_to(self, board, from_)
    ELSE <<>>

\* Board.move without the check of the piece's candidates.
Board_move_check_NoCandidateCheck(board, moving_color, from_, to) ==
    LET field == Board_getitem(board, from_)
    IN  IF field.color # moving_color THEN 1
        ELSE IF Board_getitem(board, to).color = moving_color THEN 2
        ELSE 0

\* Board.move that refuses to take a King.
Board_move_check_ProtectsKing(board, moving_color, from_, to) ==
    LET field == Board_getitem(board, from_)
    IN  IF field.color # moving_color THEN 1
        ELSE IF Board_getitem(board, to).color = moving_color THEN 2
        ELSE IF Board_getitem(board, to).kind = "King" THEN 3
        ELSE IF ~ In(to, can_move_to(field, board, from_)) THEN 3
        ELSE 0

\* Board.move without the check of the destination's colour.
Board_move_check_NoOwnPieceCheck(board, moving_color, from_, to) ==
    LET field == Board_getitem(board, from_)
    IN  IF field.color # moving_color THEN 1
        ELSE IF ~ In(to, can_move_to(field, board, from_)) THEN 3
        ELSE 0

\* The three checks of Board.move in their order: the number of the first
\* that raises, or 0 when none does.
Board_move_check(board, moving_color, from_, to) ==
    LET field == Board_getitem(board, from_)
    IN  IF field.color # moving_color THEN 1
        ELSE IF Board_getitem(board, to).color = moving_color THEN 2
        ELSE IF ~ In(to, can_move_to(field, board, from_)) THEN 3
        ELSE 0

\* What a check raises.  The message of check 1 names `color`, which is
\* bound nowhere: building it raises NameError before InvalidMove exists.
Board_move_raise(check) == IF check = 1 THEN "NameError" ELSE "InvalidMove"

\* Board.move that clears the source square before it copies from it.
Board_move_write_ClearsFirst(board, field, from_, to) ==
    LET cleared == Board_setitem(board, from_, Empty)
    IN  Board_setitem(cleared, to, Board_getitem(cleared, from_))

\* Board.move that forgets to clear the source square.
Board_move_write_KeepsSource(board, field, from_, to) ==
    Board_setitem(board, to, field)

\* self[to] = field ; self[from_] = Empty()
Board_move_write(board, field, from_, to) ==
    Board_setitem(Board_setitem(board, to, field), from_, Empty)

\* Board.move that writes the destination before it looks at the candidates.
Board_move_WritesBeforeCandidateCheck(board, moving_color, from_, to) ==
    LET field == Board_getitem(board, from_)
        check == Board_move_check(board, moving_color, from_, to)
    IN  IF check \in {1, 2}
        THEN [board |-> board, raised |-> Board_move_raise(check),
              check |-> check, strike |-> FALSE]
        ELSE IF check = 3
        THEN [board |-> Board_setitem(board, to, field),
              raised |-> Board_move_raise(check),
              check |-> check, strike |-> FALSE]
        ELSE [board |-> Board_move_write(board, field, from_, to),
              raised |-> "none", check |-> 0,
              strike |-> Board_getitem(board, to).color
                            \notin {moving_color, None}]

\* The result of Board.move: the board as the call leaves it, the exception
\* that leaves the call ("none" when it returns), the check that raised it,
\* and whether a strike was logged.
Board_move(board, moving_color, from_, to) ==
    LET field == Board_getitem(board, from_)
        check == Board_move_check(board, moving_color, from_, to)
    IN  IF check # 0
        THEN [board |-> board, raised |-> Board_move_raise(check),
              check |-> check, strike |-> FALSE]
        ELSE [board |-> Board_move_write(board, field, from_, to),
              raised |-> "none", check |-> 0,
              strike |-> Board_getitem(board, to).color
                            \notin {moving_color, None}]

\* ------------------------------------------------------------------------
\* Game
\* ------------------------------------------------------------------------

Game_init == [board |-> Board_init, turn |-> WHITE]

\* Game.move that flips the turn after the try statement, whatever happened.
Game_move_FlipsAlways(self, from_, to) ==
    LET moved == Board_move(self.board, self.turn, from_, to)
    IN  IF moved.raised \in {"none", "InvalidMove"}
        THEN [game |-> [board |-> moved.board, turn |-> inverse(self.turn)],
              raised |-> "none", moved |-> moved]
        ELSE [game |-> [board |-> moved.board, turn |-> self.turn],
              raised |-> moved.raised, moved |-> moved]

\* The result of Game.move: the game as the call leaves it, the exception
\* that escapes the call, and what Board.move did.
Game_move(self, from_, to) ==
    LET moved == Board_move(self.board, self.turn, from_, to)
    IN  IF moved.raised = "none"
        THEN [game |-> [board |-> moved.board, turn |-> inverse(self.turn)],
              raised |-> "none", moved |-> moved]
        ELSE IF moved.raised = "InvalidMove"
        THEN [game |-> [board |-> moved.board, turn |-> self.turn],
              raised |-> "none", moved |-> moved]
        ELSE [game |-> [board |-> moved.board, turn |-> self.turn],
              raised |-> moved.raised, moved |-> moved]

\* ------------------------------------------------------------------------
\* main: the command loop
\* ------------------------------------------------------------------------

VARIABLES
    game,      \* main's `game`: None or the Game object
    status,    \* where main is: "input" (waiting in input()), "handled" (a
               \* command was handled, the loop is about to come round),
               \* "exited" (loop left) or "crashed" (uncaught exception)
    last,      \* the command just handled and what it did
    prev,      \* `game` as it was when that command started
    moveLog    \* the successful moves of the current game, in order

vars == <<game, status, last, prev, moveLog>>

InputCols == (5 - NumInputCols)..4

InputSquares == {Position(row, column) : row \in Range8, column \in InputCols}

\* The texts a user types for a square: the lower-cased names of the input
\* squares and one that is no square ("i9").
BadText == <<ord_a + 8, ord_1 + 8>>

InputTexts == {lower(Position_str(p)) : p \in InputSquares} \cup {BadText}

NoCall == [raised |-> "none", check |-> 0, strike |-> FALSE]

Last(command, from_, to, outcome, moved) ==
    [command |-> command, from_ |-> from_, to |-> to,
     outcome |-> outcome, moved |-> moved]

NoCommand == Last("none", None, None, "ok", NoCall)

Init ==
    /\ game = None
    /\ status = "input"
    /\ last = NoCommand
    /\ prev = None
    /\ moveLog = <<>>

\* command == "exit"
CmdExit ==
    /\ status = "input"
    /\ status' = "exited"
    /\ last' = Last("exit", None, None, "ok", NoCall)
    /\ prev' = game
    /\ UNCHANGED <<game, moveLog>>

\* command == "help"
CmdHelp ==
    /\ status = "input"
    /\ status' = "handled"
    /\ last' = Last("help", None, None, "ok", NoCall)
    /\ prev' = game
    /\ UNCHANGED <<game, moveLog>>

\* command == "new"
CmdNew ==
    /\ status = "input"
    /\ status' = "handled"
    /\ game' = Game_init
    /\ moveLog' = <<>>
    /\ last' = Last("new", None, None, "ok", NoCall)
    /\ prev' = game

\* "move <L> <L>" while no game is in progress
CmdMoveNoGame ==
    /\ status = "input"
    /\ game = None
    /\ status' = "handled"
    /\ last' = Last("move", None, None, "InvalidCommand", NoCall)
    /\ prev' = game
    /\ UNCHANGED <<game, moveLog>>

\* "move <L> <L>" with a text that Position.parse rejects
CmdMoveInvalidPosition(text1, text2) ==
    /\ status = "input"
    /\ game # None
    /\ parse(text1).raised # "none" \/ parse(text2).raised # "none"
    /\ status' = "handled"
    /\ last' = Last("move", None, None, "InvalidCommand", NoCall)
    /\ prev' = game
    /\ UNCHANGED <<game, moveLog>>

\* "move <L> <L>" with two squares: Game.move is called.  An exception
\* that escapes Game.move is caught nowhere in main and ends the process.
CmdMove(text1, text2) ==
    /\ status = "input"
    /\ game # None
    /\ parse(text1).raised = "none" /\ parse(text2).raised = "none"
    /\ \E from_ \in {parse(text1).value}, to \in {parse(text2).value} :
       \E result \in {Game_move(game, from_, to)} :
           /\ game' = result.game
           /\ prev' = game
           /\ IF result.raised # "none"
              THEN /\ status' = "crashed"
                   /\ last' = Last("move", from_, to, result.raised, result.moved)
                   /\ UNCHANGED moveLog
              ELSE /\ status' = "handled"
                   /\ IF result.moved.raised = "none"
                      THEN /\ last' = Last("move", from_, to, "ok", result.moved)
                           /\ moveLog' = Append(moveLog,
                                  [from_ |-> from_, to |-> to,
                                   field |-> Board_getitem(game.board, from_),
                                   strike |-> result.moved.strike])
                      ELSE /\ last' = Last("move", from_, to, "InvalidMove",
                                           result.moved)
                           /\ UNCHANGED moveLog

\* any other command, and a move command that does not split into three
\* parts: InvalidCommand is raised and logged (the pdb session of `debug`
\* is left out)
CmdInvalid ==
    /\ status = "input"
    /\ status' = "handled"
    /\ last' = Last("other", None, None, "InvalidCommand", NoCall)
    /\ prev' = game
    /\ UNCHANGED <<game, moveLog>>

\* `continue`: the loop comes round to input() again
Prompt ==
    /\ status = "handled"
    /\ status' = "input"
    /\ last' = NoCommand
    /\ prev' = None
    /\ UNCHANGED <<game, moveLog>>

Next ==
    \/ CmdExit
    \/ CmdHelp
    \/ CmdNew
    \/ CmdMoveNoGame
    \/ \E text1 \in InputTexts, text2 \in InputTexts :
          CmdMoveInvalidPosition(text1, text2)
    \/ /\ Len(moveLog) < MaxMoves
       /\ \E text1 \in InputTexts, text2 \in InputTexts : CmdMove(text1, text2)
    \/ CmdInvalid
    \/ Prompt

Spec == Init /\ [][Next]_vars

TypeOK ==
    /\ status \in {"input", "handled", "exited", "crashed"}
    /\ Len(moveLog) <= MaxMoves
    /\ game # None => game.turn \in Color

\* ------------------------------------------------------------------------
\* Pawn.can_move_to as a function of the board: every pawn square, with
\* every filling of the four squares the rule reads, and the new board
\* ------------------------------------------------------------------------

Squares == {Position(row, column) : row \in Range8, column \in Range8}

\* What the squares around the pawn hold: nothing, a White piece, a Black piece.
Fill == {Empty, Pawn(WHITE), Knight(BLACK)}

EmptyBoard == [row \in Range8 |-> [column \in Range8 |-> Empty]]

Put(board, key, value) ==
    IF key = None THEN board ELSE Board_setitem(board, key, value)

PawnBoard(color, at, one, two, left, right) ==
    LET direction == IF color = WHITE THEN 1 ELSE -1
        b1 == Put(EmptyBoard, translate(at, 2 * direction, 0), two)
        b2 == Put(b1, translate(at, direction, 0), one)
        b3 == Put(b2, translate(at, direction, -1), left)
        b4 == Put(b3, translate(at, direction, 1), right)
    IN  Board_setitem(b4, at, Pawn(color))

Init_Pawn ==
    /\ \/ \E color \in Color, at \in Squares :
          \E one \in Fill, two \in Fill, left \in Fill, right \in Fill :
             game = [board |-> PawnBoard(color, at, one, two, left, right),
                     turn |-> color]
       \/ game = Game_init
    /\ status = "input"
    /\ last = NoCommand
    /\ prev = None
    /\ moveLog = <<>>

\* board[from_].can_move_to(board, from_) for a piece on the board
CallCanMoveTo(from_) ==
    /\ last = NoCommand
    /\ ~ is_empty(Board_getitem(game.board, from_))
    /\ last' = [command |-> "can_move_to", from_ |-> from_,
                candidates |-> can_move_to(Board_getitem(game.board, from_),
                                           game.board, from_)]
    /\ UNCHANGED <<game, status, prev, moveLog>>

Next_Pawn == \E from_ \in Squares : CallCanMoveTo(from_)

SpecPawn == Init_Pawn /\ [][Next_Pawn]_vars

\* ------------------------------------------------------------------------
\* Position.translate, Position.parse and Position.__str__ as functions of
\* their arguments
\* ------------------------------------------------------------------------

Offsets == -MaxOffset..MaxOffset

\* The code points texts are made of: ` a..h i, 0 1..8 9, line break, space,
\* A and H.
Alphabet ==
    (ord_a - 1)..(ord_a + 8) \cup (ord_1 - 1)..(ord_1 + 8)
        \cup {ord_newline, 32, ord_A, ord_A + 7}

Texts == UNION {[1..n -> Alphabet] : n \in 0..MaxTextLen}

\* self.translate(row_offset=..., column_offset=...)
CallTranslate(self, row_offset, column_offset) ==
    /\ last = NoCommand
    /\ last' = [command |-> "translate", self |-> self,
                row_offset |-> row_offset, column_offset |-> column_offset,
                result |-> translate(self, row_offset, column_offset)]
    /\ UNCHANGED <<game, status, prev, moveLog>>

\* Position.parse(input), and str() of the position it returns
CallParse(input) ==
    /\ last = NoCommand
    /\ \E result \in {parse(input)} :
          last' = [command |-> "parse", input |-> input, result |-> result,
                   text |-> IF result.raised = "none"
                            THEN Position_str(result.value)
                            ELSE <<>>]
    /\ UNCHANGED <<game, status, prev, moveLog>>

\* str(self), and Position.parse of its lower-cased text
CallStr(self) ==
    /\ last = NoCommand
    /\ last' = [command |-> "str", self |-> self, text |-> Position_str(self),
                parsed |-> parse(lower(Position_str(self)))]
    /\ UNCHANGED <<game, status, prev, moveLog>>

\* One call is made in a behaviour.
Next_Position ==
    /\ last = NoCommand
    /\ \/ \E self \in Squares, row_offset \in Offsets, column_offset \in Offsets :
             CallTranslate(self, row_offset, column_offset)
       \/ \E input \in Texts : CallParse(input)
       \/ \E self \in Squares : CallStr(self)

SpecPosition == Init /\ [][Next_Position]_vars

\* ------------------------------------------------------------------------
\* Two whole games typed into main, move by move, with other moves tried
\* on the way
\* ------------------------------------------------------------------------

FileIndex ==
    [a |-> 0, b |-> 1, c |-> 2, d |-> 3, e |-> 4, f |-> 5, g |-> 6, h |-> 7]

\* The move from square file1 rank1 to square file2 rank2.
M(file1, rank1, file2, rank2) ==
    <<Position(rank1 - 1, FileIndex[file1]), Position(rank2 - 1, FileIndex[file2])>>

\* All sixteen pawns end up face to face, none with a strike.
LockedGame ==
    << M("a", 2, "a", 4), M("a", 7, "a", 5), M("b", 2, "b", 3), M("b", 7, "b", 5),
       M("c", 2, "c", 4), M("b", 5, "b", 4), M("d", 2, "d", 4), M("c", 7, "c", 5),
       M("d", 4, "d", 5), M("d", 7, "d", 6), M("e", 2, "e", 4), M("e", 7, "e", 5),
       M("f", 2, "f", 3), M("f", 7, "f", 5), M("g", 2, "g", 4), M("f", 5, "f", 4),
       M("h", 2, "h", 4), M("g", 7, "g", 5), M("h", 4, "h", 5), M("h", 7, "h", 6) >>

\* White's e-pawn takes on d5, walks to d7 and takes on e8.
KingHunt ==
    << M("e", 2, "e", 4), M("d", 7, "d", 5), M("e", 4, "d", 5), M("a", 7, "a", 6),
       M("d", 5, "d", 6), M("a", 6, "a", 5), M("d", 6, "d", 7), M("a", 5, "a", 4),
       M("d", 7, "e", 8), M("a", 4, "a", 3) >>

Scripts == {LockedGame, KingHunt}

\* Moves tried at any time: a pawn three rows ahead, a King's step, a pawn
\* back from the last row, a pawn straight onto the last row.
Decoys ==
    { M("e", 2, "e", 5), M("e", 1, "e", 2), M("e", 8, "e", 7), M("d", 7, "d", 8) }

\* The moves that continue a script the game has followed so far.
ScriptNext ==
    { script[Len(moveLog) + 1] :
        script \in { sc \in Scripts :
                       /\ Len(sc) > Len(moveLog)
                       /\ \A i \in 1..Len(moveLog) :
                             sc[i] = <<moveLog[i].from_, moveLog[i].to>> } }

Next_Script ==
    \/ CmdNew
    \/ \E move \in ScriptNext \cup Decoys :
          CmdMove(lower(Position_str(move[1])), lower(Position_str(move[2])))
    \/ Prompt

SpecScript == Init /\ [][Next_Script]_vars

\* ------------------------------------------------------------------------
\* Two calls of Game.move on one Game, run statement by statement by two
\* threads.  `game` is the shared object, `prev` the game before the calls,
\* `last` holds what each call keeps in its own frame.
\* ------------------------------------------------------------------------

Threads == {1, 2}

\* The squares the two calls name.
ThreadSquares ==
    { Position(1, 4), Position(2, 4), Position(3, 4),
      Position(1, 3), Position(2, 3), Position(6, 4) }

\* The frame of a call that has not started.
Call(from_, to) ==
    [from_ |-> from_, to |-> to, pc |-> "262",
     moving_color |-> None, field |-> None, turn |-> None, outcome |-> "none"]

\* Each statement takes the frame c of its call and the shared game g and
\* gives both back as it leaves them.

\* 262: moving_color=self._turn is evaluated for the call of Board.move
Line262(c, g) ==
    [call |-> [c EXCEPT !.pc = "233", !.moving_color = g.turn], game |-> g]

\* 233: field = self[from_]
Line233(c, g) ==
    [call |-> [c EXCEPT !.pc = "235",
                        !.field = Board_getitem(g.board, c.from_)],
     game |-> g]

\* 235-236: the first check, on the frame's own values; its raise ends the
\* call with an exception Game.move does not catch
Line235(c, g) ==
    [call |-> IF c.field.color # c.moving_color
              THEN [c EXCEPT !.pc = "raised", !.outcome = Board_move_raise(1)]
              ELSE [c EXCEPT !.pc = "238"],
     game |-> g]

\* 238-239: the second check reads the board; InvalidMove is caught at 265
Line238(c, g) ==
    [call |-> IF Board_getitem(g.board, c.to).color = c.moving_color
              THEN [c EXCEPT !.pc = "done", !.outcome = Board_move_raise(2)]
              ELSE [c EXCEPT !.pc = "241"],
     game |-> g]

\* 241-242: the third check reads the board through can_move_to
Line241(c, g) ==
    [call |-> IF ~ In(c.to, can_move_to(c.field, g.board, c.from_))
              THEN [c EXCEPT !.pc = "done", !.outcome = Board_move_raise(3)]
              ELSE [c EXCEPT !.pc = "247"],
     game |-> g]

\* 247: self[to] = field
Line247(c, g) ==
    [call |-> [c EXCEPT !.pc = "248"],
     game |-> [g EXCEPT !.board = Board_setitem(g.board, c.to, c.field)]]

\* self[from_] is left as it is.
Line248_Skipped(c, g) ==
    [call |-> [c EXCEPT !.pc = "263"], game |-> g]

\* 248: self[from_] = Empty()
Line248(c, g) ==
    [call |-> [c EXCEPT !.pc = "263"],
     game |-> [g EXCEPT !.board = Board_setitem(g.board, c.from_, Empty)]]

\* 263, right-hand side: self._turn is read
Line263(c, g) ==
    [call |-> [c EXCEPT !.pc = "263_store", !.turn = g.turn], game |-> g]

\* 263, assignment: self._turn = <what was read>.inverse()
Line263_store(c, g) ==
    [call |-> [c EXCEPT !.pc = "done", !.outcome = "ok"],
     game |-> [g EXCEPT !.turn = inverse(c.turn)]]

\* The statement the call is at.
Statement(c, g) ==
    CASE c.pc = "262" -> Line262(c, g)
      [] c.pc = "233" -> Line233(c, g)
      [] c.pc = "235" -> Line235(c, g)
      [] c.pc = "238" -> Line238(c, g)
      [] c.pc = "241" -> Line241(c, g)
      [] c.pc = "247" -> Line247(c, g)
      [] c.pc = "248" -> Line248(c, g)
      [] c.pc = "263" -> Line263(c, g)
      [] c.pc = "263_store" -> Line263_store(c, g)

Returned(c) == c.pc \in {"done", "raised"}

InCall(c) == c.pc # "262" /\ ~ Returned(c)

Init_Threads ==
    /\ game = Game_init
    /\ prev = Game_init
    /\ status = "input"
    /\ moveLog = <<>>
    /\ \E from_1 \in ThreadSquares, to_1 \in ThreadSquares,
          from_2 \in ThreadSquares, to_2 \in ThreadSquares :
          last = [command |-> "threads",
                  calls |-> <<Call(from_1, to_1), Call(from_2, to_2)>>,
                  first |-> 0,
                  overlapped |-> FALSE]

\* Thread t runs the next statement of its call.
Step(t) ==
    /\ ~ Returned(last.calls[t])
    /\ \E after \in {Statement(last.calls[t], game)} :
          /\ game' = after.game
          /\ last' = [last EXCEPT
                        !.calls[t] = after.call,
                        !.first = IF @ = 0 THEN t ELSE @,
                        !.overlapped = @ \/ InCall(last.calls[3 - t])]
    /\ UNCHANGED <<status, prev, moveLog>>

Next_Threads == \E t \in Threads : Step(t)

SpecThreads == Init_Threads /\ [][Next_Threads]_vars

\* ------------------------------------------------------------------------
\* Claims
\* ------------------------------------------------------------------------

E2 == Position(1, 4)

E4 == Position(3, 4)

E5 == Position(4, 4)

E7 == Position(6, 4)

D3 == Position(2, 3)

D5 == Position(4, 3)

D7 == Position(6, 3)

\* Game.move was called by the command just handled.
MoveCalled == last.command = "move" /\ last.outcome # "InvalidCommand"

MoveSucceeded == MoveCalled /\ last.outcome = "ok"

PieceCount(board) ==
    Cardinality({p \in Squares : ~ is_empty(Board_getitem(board, p))})

\* The successful moves made before the command just handled.
PrevMoves ==
    LET log == IF MoveSucceeded
               THEN SubSeq(moveLog, 1, Len(moveLog) - 1)
               ELSE moveLog
    IN  [i \in DOMAIN log |-> <<log[i].from_, log[i].to>>]

\* C1: when Game.move(from, to) does not succeed, whatever the reason, the
\* turn and all 64 squares are what they were before the call.
C1_RejectedMoveChangesNothing ==
    (MoveCalled /\ last.outcome # "ok") =>
        /\ game.turn = prev.turn
        /\ \A p \in Squares :
              Board_getitem(game.board, p) = Board_getitem(prev.board, p)

\* A move that an own pawn's candidates do not hold was rejected after a
\* successful move.
C1_Witness ==
    /\ MoveCalled
    /\ last.outcome = "InvalidMove"
    /\ last.moved.check = 3
    /\ Board_getitem(prev.board, last.from_).kind = "Pawn"
    /\ Len(moveLog) > 0

\* C2: a new game starts with White to move; the turn flips on a successful
\* Game.move and on nothing else, so the turn is White iff the number of
\* successful moves is even, and the k-th successful move moved a White
\* piece iff k is odd.
C2_TurnAlternates ==
    /\ last.command = "new" => game.turn = WHITE /\ moveLog = <<>>
    /\ game # None => (game.turn = WHITE <=> Len(moveLog) % 2 = 0)
    /\ \A k \in DOMAIN moveLog : (moveLog[k].field.color = WHITE <=> k % 2 = 1)
    /\ MoveCalled =>
          IF last.outcome = "ok"
          THEN game.turn = inverse(prev.turn)
          ELSE game.turn = prev.turn
    /\ (last.command \in {"help", "other", "exit"} \/ last.outcome = "InvalidCommand")
          => game = prev

\* The third successful move of a game was just made, by White.
C2_Witness ==
    /\ Len(moveLog) = 3
    /\ game.turn = BLACK
    /\ MoveSucceeded

\* C3: Board.move fails with InvalidMove, and with no other kind of error,
\* when `from` is empty or holds a piece of the other colour.
C3_WrongColourRaisesInvalidMove ==
    (MoveCalled /\ Board_getitem(prev.board, last.from_).color # prev.turn)
        => last.moved.raised = "InvalidMove"

\* C4: Game.move never ends in a fatal fault: it succeeds or reports
\* InvalidMove and returns, and the command loop goes on.
C4_MoveNeverFatal ==
    /\ status # "crashed"
    /\ MoveCalled => last.outcome \in {"ok", "InvalidMove"}

\* C5: Board.move succeeds exactly when the piece at `from` has the moving
\* colour, the piece at `to` does not, and `to` is a candidate of the piece
\* at `from`; otherwise it is rejected with InvalidMove, and the reason
\* reported is that of the first check that fails.
C5_MoveSucceedsIffChecksPass ==
    MoveCalled =>
        LET field == Board_getitem(prev.board, last.from_)
            ok1 == field.color = prev.turn
            ok2 == Board_getitem(prev.board, last.to).color # prev.turn
            ok3 == In(last.to, can_move_to(field, prev.board, last.from_))
            first == IF ~ ok1 THEN 1 ELSE IF ~ ok2 THEN 2 ELSE IF ~ ok3 THEN 3 ELSE 0
        IN  /\ last.moved.raised = "none" <=> (ok1 /\ ok2 /\ ok3)
            /\ first # 0 =>
                  /\ last.moved.raised = "InvalidMove"
                  /\ last.moved.check = first

\* C6: a successful move changes exactly two squares: `to` holds the piece
\* that was at `from`, `from` is Empty, the other 62 squares are as before.
C6_SuccessfulMoveChangesTwoSquares ==
    MoveSucceeded =>
        /\ last.from_ # last.to
        /\ Board_getitem(game.board, last.to)
              = Board_getitem(prev.board, last.from_)
        /\ Board_getitem(game.board, last.from_) = Empty
        /\ \A p \in Squares \ {last.from_, last.to} :
              Board_getitem(game.board, p) = Board_getitem(prev.board, p)

\* A successful move onto a square that held a piece.
C6_Witness ==
    /\ MoveSucceeded
    /\ ~ is_empty(Board_getitem(prev.board, last.to))
    /\ PieceCount(game.board) = PieceCount(prev.board) - 1

\* C7: with a piece of the moving colour on both `from` and `to`, Board.move
\* raises InvalidMove at its check of the destination; and no successful
\* move removes a piece of the mover's colour.
C7_OwnPieceNeverTaken ==
    /\ (MoveCalled
          /\ Board_getitem(prev.board, last.from_).color = prev.turn
          /\ Board_getitem(prev.board, last.to).color = prev.turn)
        => /\ last.outcome = "InvalidMove"
           /\ last.moved.check = 2
    /\ MoveSucceeded => Board_getitem(prev.board, last.to).color # prev.turn

\* A pawn was sent onto a different square that holds a piece of its colour.
C7_Witness ==
    /\ MoveCalled
    /\ last.from_ # last.to
    /\ Board_getitem(prev.board, last.from_) = Pawn(prev.turn)
    /\ Board_getitem(prev.board, last.to).color = prev.turn
    /\ last.outcome = "InvalidMove"

\* The pawn whose candidates were just computed.
PawnCalled ==
    /\ last.command = "can_move_to"
    /\ Board_getitem(game.board, last.from_).kind = "Pawn"

IsEmptyAt(board, row, column) ==
    /\ row \in Range8
    /\ column \in Range8
    /\ board[row][column].color = None

\* C8: the square one row ahead of a pawn is a candidate iff it is on the
\* board and empty; the square two rows ahead iff the pawn is on its start
\* row and both squares are empty; no other square of the column is one.
C8_PawnForwardCandidates ==
    PawnCalled =>
        LET self == Board_getitem(game.board, last.from_)
            row == last.from_.row
            column == last.from_.column
            d == IF self.color = WHITE THEN 1 ELSE -1
            start == IF self.color = WHITE THEN row = 1 ELSE row = 6
        IN  \A r \in -2..9 :
               In(Position(r, column), last.candidates) <=>
                  \/ r = row + d /\ IsEmptyAt(game.board, r, column)
                  \/ /\ r = row + 2 * d
                     /\ start
                     /\ IsEmptyAt(game.board, row + d, column)
                     /\ IsEmptyAt(game.board, r, column)

\* A pawn on its start row with both squares ahead empty got both.
C8_Witness ==
    /\ PawnCalled
    /\ In(translate(last.from_, 1, 0), last.candidates)
    /\ In(translate(last.from_, 2, 0), last.candidates)

\* C9: the forward-left and forward-right squares of a pawn are candidates
\* iff they are on the board and hold a piece of the other colour; no
\* candidate off the pawn's column is empty or of the pawn's colour.
C9_PawnDiagonalCandidates ==
    PawnCalled =>
        LET self == Board_getitem(game.board, last.from_)
            row == last.from_.row
            column == last.from_.column
            d == IF self.color = WHITE THEN 1 ELSE -1
        IN  /\ \A side \in {-1, 1} :
                  In(Position(row + d, column + side), last.candidates) <=>
                     /\ row + d \in Range8
                     /\ column + side \in Range8
                     /\ game.board[row + d][column + side].color
                           = inverse(self.color)
            /\ \A i \in DOMAIN last.candidates :
                  last.candidates[i].column # column =>
                     /\ last.candidates[i].row = row + d
                     /\ last.candidates[i].column \in {column - 1, column + 1}
                     /\ Board_getitem(game.board, last.candidates[i]).color
                           = inverse(self.color)
            /\ (game = Game_init /\ last.from_ = E2) => ~ In(D3, last.candidates)

\* A Black pawn got a strike on one side while its own colour held the other.
C9_Witness ==
    /\ PawnCalled
    /\ Board_getitem(game.board, last.from_).color = BLACK
    /\ In(translate(last.from_, -1, -1), last.candidates)
    /\ translate(last.from_, -1, 1) # None
    /\ Board_getitem(game.board, translate(last.from_, -1, 1)).color = BLACK

\* C10: from a new game E2-E4 succeeds and Black is to move; then D7-D5
\* succeeds and White is to move; then E4-D5 succeeds as a strike, after
\* which D5 holds a White pawn, E4, E2 and D7 are empty, 31 pieces stand on
\* the board and Black is to move.
C10_Scenario ==
    /\ (MoveCalled /\ PrevMoves = <<>> /\ last.from_ = E2 /\ last.to = E4)
          => /\ last.outcome = "ok"
             /\ game.turn = BLACK
    /\ (MoveCalled /\ PrevMoves = << <<E2, E4>> >>
            /\ last.from_ = D7 /\ last.to = D5)
          => /\ last.outcome = "ok"
             /\ game.turn = WHITE
    /\ (MoveCalled /\ PrevMoves = << <<E2, E4>>, <<D7, D5>> >>
            /\ last.from_ = E4 /\ last.to = D5)
          => /\ last.outcome = "ok"
             /\ last.moved.strike
             /\ Board_getitem(game.board, D5) = Pawn(WHITE)
             /\ Board_getitem(game.board, E4) = Empty
             /\ Board_getitem(game.board, E2) = Empty
             /\ Board_getitem(game.board, D7) = Empty
             /\ PieceCount(game.board) = 31
             /\ game.turn = BLACK

\* The third move of the scenario was just made.
C10_Witness ==
    /\ MoveCalled
    /\ PrevMoves = << <<E2, E4>>, <<D7, D5>> >>
    /\ last.from_ = E4
    /\ last.to = D5


\* The kinds of a back rank from column 0 (file A) to column 7 (file H).
StandardBackRank ==
    <<"Rook", "Knight", "Bishop", "Queen", "King", "Bishop", "Knight", "Rook">>

\* C11: the board of a new Game is the standard starting position: rows 0
\* and 7 hold Rook, Knight, Bishop, Queen, King, Bishop, Knight, Rook in
\* White and in Black, row 1 eight White pawns, row 6 eight Black pawns,
\* rows 2..5 nothing, and White is to move.
C11_NewGameIsStandardPosition ==
    last.command = "new" =>
        /\ game.turn = WHITE
        /\ \A column \in Range8 :
              /\ game.board[0][column]
                    = [kind |-> StandardBackRank[column + 1], color |-> WHITE]
              /\ game.board[7][column]
                    = [kind |-> StandardBackRank[column + 1], color |-> BLACK]
              /\ game.board[1][column] = [kind |-> "Pawn", color |-> WHITE]
              /\ game.board[6][column] = [kind |-> "Pawn", color |-> BLACK]
              /\ \A row \in 2..5 : game.board[row][column].color = None
        /\ game.board[0][4] = King(WHITE)
        /\ game.board[7][4] = King(BLACK)

\* `new` was typed while a game with moves made was in progress.
C11_Witness ==
    /\ last.command = "new"
    /\ prev # None
    /\ prev.board # game.board

\* C12: translate returns the position (row + row_offset, column +
\* column_offset) when both components lie in 0..7 and None otherwise; it
\* does not wrap or clamp, so what it returns lies on the board.
C12_TranslateInBoundsOrAbsent ==
    last.command = "translate" =>
        LET row == last.self.row + last.row_offset
            column == last.self.column + last.column_offset
            inside == 0 <= row /\ row <= 7 /\ 0 <= column /\ column <= 7
        IN  /\ inside => last.result = [row |-> row, column |-> column]
            /\ ~ inside => last.result = None
            /\ last.result # None =>
                  /\ last.result.row \in 0..7
                  /\ last.result.column \in 0..7

\* A1.translate(row_offset=-1) is absent.
C12_Witness ==
    /\ last.command = "translate"
    /\ last.self = Position(0, 0)
    /\ last.row_offset = -1
    /\ last.column_offset = 0
    /\ last.result = None

\* A text of exactly one letter a..h and one digit 1..8.
IsSquareText(text) ==
    /\ Len(text) = 2
    /\ \E letter \in 0..7 : text[1] = ord_a + letter
    /\ \E digit \in 1..8 : text[2] = ord_1 + digit - 1

\* C13: for a text s of a letter a..h and a digit 1..8, parse(s) has row =
\* digit - 1 and column = letter index, and str(parse(s)) lower-cased is s
\* lower-cased; for a position p on the board, parse of the lower-cased
\* str(p) is p.
C13_ParseStrRoundTrip ==
    /\ (last.command = "parse" /\ IsSquareText(last.input)) =>
          /\ last.result.raised = "none"
          /\ last.result.value.row = (last.input[2] - ord_1 + 1) - 1
          /\ last.result.value.column = last.input[1] - ord_a
          /\ lower(last.text) = lower(last.input)
    /\ last.command = "str" =>
          /\ last.parsed.raised = "none"
          /\ last.parsed.value = last.self

\* "e2" was parsed, to row 1 and column 4, which prints as "E2".
C13_Witness ==
    /\ last.command = "parse"
    /\ last.input = <<ord_a + 4, ord_1 + 1>>
    /\ last.result.value = Position(1, 4)
    /\ last.text = <<ord_A + 4, ord_1 + 1>>

\* C14: Position.parse raises InvalidPosition, and returns no position, for
\* every text that is not exactly a letter a..h followed by a digit 1..8,
\* a text with a trailing line break included.
C14_ParseRejectsEverythingElse ==
    (last.command = "parse" /\ ~ IsSquareText(last.input)) =>
        /\ last.result.raised = "InvalidPosition"
        /\ last.result.value = None

\* C15: Rook, Knight, Bishop, Queen and King have no candidates on any
\* board, so no move of theirs is accepted: every such piece on the board
\* stands where the new game put it, and every successful move is a pawn's.
C15_OnlyPawnsMove ==
    game # None =>
        /\ \A p \in Squares :
              LET field == Board_getitem(game.board, p)
              IN  field.kind \notin {"Pawn", "Empty"} =>
                     /\ field = Board_getitem(Board_init, p)
                     /\ can_move_to(field, game.board, p) = <<>>
        /\ \A k \in DOMAIN moveLog : moveLog[k].field.kind = "Pawn"
        /\ (MoveCalled
              /\ Board_getitem(prev.board, last.from_).kind # "Pawn")
             => last.outcome # "ok"

\* The King of the side to move was sent onto an empty square and refused.
C15_Witness ==
    /\ MoveCalled
    /\ Board_getitem(prev.board, last.from_) = King(prev.turn)
    /\ is_empty(Board_getitem(prev.board, last.to))
    /\ last.outcome = "InvalidMove"
    /\ last.moved.check = 3

\* Some call Game.move(from, to) would succeed on the present game.
HasSuccessfulMove ==
    \E from_ \in Squares, to \in Squares :
        Game_move(game, from_, to).moved.raised = "none"

\* Some pawn of the side to move has a candidate destination.
SomePawnCanMove ==
    \E from_ \in Squares :
        /\ Board_getitem(game.board, from_) = Pawn(game.turn)
        /\ Pawn_can_move_to(Pawn(game.turn), game.board, from_) # <<>>

\* C16 as stated: in every state reachable from a new game there is at least
\* one pair of squares (from, to) for which Game.move succeeds for the side
\* to move.
C16_AlwaysASuccessfulMove ==
    game # None => HasSuccessfulMove

\* C16: the turn is always White or Black, and no state is marked as final;
\* Game.move succeeds for some pair of squares exactly when some pawn of the
\* side to move has a candidate destination, which is not the case in every
\* reachable state.
C16_MoveExistsIffPawnCanMove ==
    game # None =>
        /\ game.turn \in Color
        /\ HasSuccessfulMove <=> SomePawnCanMove

\* After the twenty moves of LockedGame no pawn of the side to move has a
\* candidate.
C16_Witness ==
    /\ game # None
    /\ Len(moveLog) = Len(LockedGame)
    /\ ~ SomePawnCanMove

KingCount(board, color) ==
    Cardinality({p \in Squares : Board_getitem(board, p) = King(color)})

\* The move just called was a pawn of the side to move reaching for the
\* opposing King on one of its two diagonal squares.
PawnReachedForKing ==
    /\ MoveCalled
    /\ Board_getitem(prev.board, last.from_) = Pawn(prev.turn)
    /\ Board_getitem(prev.board, last.to) = King(inverse(prev.turn))
    /\ \E column_offset \in {-1, 1} :
          last.to = translate(last.from_, Pawn_direction(Pawn(prev.turn)),
                              column_offset)

\* C17: a pawn of the side to move that has the opposing King on one of its
\* two diagonal squares takes it: the move succeeds, the pawn stands where
\* the King stood and that colour has no King left; each colour has at most
\* one King at all times.
C17_KingCanBeTaken ==
    /\ game # None =>
          \A color \in Color : KingCount(game.board, color) <= 1
    /\ PawnReachedForKing =>
          /\ last.outcome = "ok"
          /\ last.moved.strike
          /\ Board_getitem(game.board, last.to) = Pawn(prev.turn)
          /\ KingCount(prev.board, inverse(prev.turn)) = 1
          /\ KingCount(game.board, inverse(prev.turn)) = 0

\* A pawn has just taken the Black King and White still has its own.
C17_Witness ==
    /\ PawnReachedForKing
    /\ MoveSucceeded
    /\ KingCount(game.board, BLACK) = 0
    /\ KingCount(game.board, WHITE) = 1

PieceFields ==
    UNION {{Pawn(color), Rook(color), King(color), Queen(color),
            Knight(color), Bishop(color)} : color \in Color}

CountOf(board, field) ==
    Cardinality({p \in Squares : Board_getitem(board, p) = field})

\* The strikes among the successful moves of the current game.
Captures == Cardinality({k \in DOMAIN moveLog : moveLog[k].strike})

\* C18: over the Game.move calls of a game no count of pieces of one colour
\* and kind goes up; a successful move onto an opposing piece takes exactly
\* that piece off the board, a successful move onto an empty square changes
\* no count, the piece that moved arrives as what it was, and the board
\* holds 32 pieces less the strikes made.
C18_PiecesConserved ==
    game # None =>
        /\ PieceCount(game.board) = 32 - Captures
        /\ \A p \in Squares :
              \/ is_empty(Board_getitem(game.board, p))
              \/ Board_getitem(game.board, p) \in PieceFields
        /\ MoveCalled =>
              \A field \in PieceFields :
                  CountOf(game.board, field) <= CountOf(prev.board, field)
        /\ MoveSucceeded =>
              LET taken == Board_getitem(prev.board, last.to)
              IN  /\ Board_getitem(game.board, last.to)
                        = Board_getitem(prev.board, last.from_)
                  /\ last.moved.strike <=> ~ is_empty(taken)
                  /\ ~ is_empty(taken) => taken.color = inverse(prev.turn)
                  /\ \A field \in PieceFields :
                        CountOf(game.board, field)
                            = CountOf(prev.board, field)
                              - (IF field = taken THEN 1 ELSE 0)

\* A strike has just been made: 31 pieces are left, one of them the striker.
C18_Witness ==
    /\ MoveSucceeded
    /\ last.moved.strike
    /\ PieceCount(prev.board) = 32
    /\ PieceCount(game.board) = 31

\* The rows the pawns on the board still have ahead of them, summed.
RowsAhead(board) ==
    Cardinality({ pk \in Squares \X (1..7) :
        \/ /\ Board_getitem(board, pk[1]) = Pawn(WHITE)
           /\ pk[2] <= 7 - pk[1].row
        \/ /\ Board_getitem(board, pk[1]) = Pawn(BLACK)
           /\ pk[2] <= pk[1].row })

\* A pawn stands on the last row of its colour.
OnLastRow(board, p) ==
    \/ Board_getitem(board, p) = Pawn(WHITE) /\ p.row = 7
    \/ Board_getitem(board, p) = Pawn(BLACK) /\ p.row = 0

\* C19: a successful move takes a pawn one or two rows on in its own
\* direction and at most one column aside; no White pawn stands on row 0
\* and no Black pawn on row 7; a pawn on its last row has no candidates;
\* every successful move uses up at least one of the 96 rows the sixteen
\* pawns have ahead of them at the start, so a game has at most 96
\* successful moves, and once no row is left no pawn has a candidate.
C19_PawnsOnlyAdvance ==
    game # None =>
        /\ MoveSucceeded =>
              LET field == Board_getitem(prev.board, last.from_)
                  rows == last.to.row - last.from_.row
                  columns == last.to.column - last.from_.column
              IN  /\ field \in {Pawn(WHITE), Pawn(BLACK)}
                  /\ Board_getitem(game.board, last.to) = field
                  /\ field.color = WHITE => rows \in {1, 2}
                  /\ field.color = BLACK => rows \in {-1, -2}
                  /\ columns \in {-1, 0, 1}
                  /\ RowsAhead(game.board) < RowsAhead(prev.board)
        /\ \A p \in Squares :
              /\ ~ (Board_getitem(game.board, p) = Pawn(WHITE) /\ p.row = 0)
              /\ ~ (Board_getitem(game.board, p) = Pawn(BLACK) /\ p.row = 7)
              /\ OnLastRow(game.board, p) =>
                    can_move_to(Board_getitem(game.board, p), game.board, p) = <<>>
        /\ Len(moveLog) + RowsAhead(game.board) <= 96
        /\ RowsAhead(game.board) = 0 => ~ SomePawnCanMove

\* White, to move, has tried to move its pawn off row 7 and was refused.
C19_Witness ==
    /\ MoveCalled
    /\ last.outcome = "InvalidMove"
    /\ prev.turn = WHITE
    /\ OnLastRow(prev.board, last.from_)
    /\ Len(moveLog) = Len(KingHunt)

ThreadsRan == last.command = "threads"

BothReturned == \A t \in Threads : Returned(last.calls[t])

\* The game after call c alone, run to its end, on game g.
After(g, c) == Game_move(g, c.from_, c.to).game

\* The games the two calls can leave when one runs wholly before the other.
SerialOutcomes ==
    { After(After(prev, last.calls[t]), last.calls[3 - t]) : t \in Threads }

\* C20: when each of two Game.move calls on one Game runs to its end before
\* the other starts, the game is at every moment what the calls made so far,
\* taken whole and in their order, leave, so the final game is one a serial
\* order produces, with every piece on one square; the states no serial
\* order produces arise only when the calls overlap.
C20_SerialCallsAreAtomic ==
    ThreadsRan =>
        /\ (BothReturned /\ game \notin SerialOutcomes) => last.overlapped
        /\ ~ last.overlapped =>
              LET a == last.calls[IF last.first = 0 THEN 1 ELSE last.first]
                  b == last.calls[IF last.first = 0 THEN 2 ELSE 3 - last.first]
              IN  /\ (~ Returned(a)) => b.pc = "262"
                  /\ (Returned(a) /\ b.pc = "262") => game = After(prev, a)
                  /\ (Returned(a) /\ Returned(b)) =>
                        /\ game = After(After(prev, a), b)
                        /\ a.outcome = "ok" <=>
                              Game_move(prev, a.from_, a.to).moved.raised = "none"
                        /\ b.outcome = "ok" <=>
                              Game_move(After(prev, a), b.from_, b.to).moved.raised
                                  = "none"
                        /\ PieceCount(game.board) = 32

\* Both calls were accepted while they overlapped, and the game they leave
\* is one no serial order produces: the pawn of e2 stands on two squares.
C20_Witness ==
    /\ ThreadsRan
    /\ BothReturned
    /\ last.overlapped
    /\ \A t \in Threads : last.calls[t].outcome = "ok"
    /\ game \notin SerialOutcomes
    /\ PieceCount(game.board) = 33

====
